---- MODULE Spec2Model ----
(***************************************************************************)
(* Jira -> Amazon Q Business connector: permission resolution, document    *)
(* ACL attachment and principal synchronisation.                           *)
(*                                                                         *)
(* Python values are modelled as follows.  A dict is a record; a missing   *)
(* or empty string is "".  A Python set is kept as a duplicate-free        *)
(* sequence in insertion order (set.add appends when absent), so that the  *)
(* order in which principals are discovered is part of the state and       *)
(* sorted() has something to normalise.                                    *)
(***************************************************************************)
EXTENDS Integers, Sequences, FiniteSets, TLC

\* ---------------------------------------------------------------- bounds
MaxGrants == 2      \* longest grant list a permission scheme returns
MaxLookups == 2     \* the per-group lookup counter of one ACLManager saturates here
MaxBatch == 2       \* longest batch of issues handed to _process_issues_batch
MaxConfigProjects == 2   \* longest project list of the configuration
MaxPages == 3       \* most pages of issues that one project has

\* ------------------------------------------------------- the Jira server
Projects == {"PROJ", "ORPHAN"}
GroupNames == {"dev-team", "ghost-team", "qa-team"}
SchemeId == "10000"
RoleId == "10001"

Alice == [name |-> "alice", emailAddress |-> "alice@x.com"]
Bob == [name |-> "bob", emailAddress |-> "bob@x.com"]
Carol == [name |-> "carol", emailAddress |-> ""]

\* GET project/{key}/permissionscheme: {} on error or when there is none,
\* a scheme without id, or a scheme with an id.
NoScheme == [empty |-> TRUE, id |-> ""]
SchemeWithoutId == [empty |-> FALSE, id |-> ""]
SchemeWithId == [empty |-> FALSE, id |-> SchemeId]
SchemeResponses == {NoScheme, SchemeWithoutId, SchemeWithId}

Grant(permission, type, parameter) ==
    [permission |-> permission, holder_type |-> type, parameter |-> parameter]

\* holder_type "null" is a grant whose "holder" is JSON null: holder.get raises.
GrantUniverse ==
    { Grant("BROWSE_PROJECTS", "group", "dev-team"),
      Grant("BROWSE_PROJECTS", "user", "alice"),
      Grant("BROWSE_PROJECTS", "projectRole", RoleId),
      Grant("ADMINISTER_PROJECTS", "group", "qa-team"),
      Grant("BROWSE_PROJECTS", "applicationRole", "jira-software"),
      Grant("BROWSE_PROJECTS", "null", "") }

RECURSIVE SeqsUpTo(_, _)
SeqsUpTo(S, n) ==
    IF n = 0 THEN {<<>>}
    ELSE LET shorter == SeqsUpTo(S, n - 1)
         IN shorter \cup {Append(s, x) : s \in shorter, x \in S}

GrantLists == SeqsUpTo(GrantUniverse, MaxGrants)

Actor(type, name) == [type |-> type, name |-> name]

\* GET project/{key}/role/{id}: the actors of the role; <<>> also stands for
\* the {} that a failed lookup returns.
RoleResponses ==
    { <<>>,
      <<Actor("atlassian-group-role-actor", "dev-team")>>,
      <<Actor("atlassian-user-role-actor", "carol"),
        Actor("atlassian-group-role-actor", "qa-team")>>,
      <<Actor("atlassian-sso-role-actor", "sso"),
        Actor("atlassian-group-role-actor", "ghost-team")>> }

JiraEnvs ==
    [scheme : [Projects -> SchemeResponses],
     grants : GrantLists,
     actors : RoleResponses]

VARIABLES
    jira,            \* what the Jira server answers (fixed during a behaviour)
    group_lookups,   \* group name -> number of jira_client.get_group_members calls
    qb_users,        \* the user ids present in the Q Business user store
    persistent_store,\* the idempotency keys recorded in the DynamoDB table
    last_sync_date,  \* the day stored in the LAST_SYNC_DATE parameter
    last             \* the last operation performed and what it returned

vars == <<jira, group_lookups, qb_users, persistent_store, last_sync_date, last>>

\* ------------------------------------------------------------ JiraClient
get_project_permission_scheme(project_key) ==
    IF project_key \in Projects THEN jira.scheme[project_key] ELSE NoScheme

get_permission_scheme_grants(scheme_id) ==
    IF scheme_id = SchemeId THEN jira.grants ELSE <<>>

get_project_role_actors(project_key, role_id) ==
    IF project_key \in Projects /\ role_id = RoleId THEN jira.actors ELSE <<>>

\* GET group/member: the members, [] when the lookup fails (ghost-team).
get_group_members(group_name) ==
    CASE group_name = "dev-team" -> <<Alice, Bob>>
      [] group_name = "qa-team" -> <<Carol, Alice>>
      [] OTHER -> <<>>

\* ----------------------------------------------------------- Python sets
\* a list instead of a set: nothing is deduplicated
SetAdd_list(s, x) == Append(s, x)

SetAdd(s, x) == IF \E i \in 1..Len(s) : s[i] = x THEN s ELSE Append(s, x)

Elems(s) == {s[i] : i \in 1..Len(s)}

\* Code-point order of the strings that occur as principal ids.
StrOrder ==
    << "alice", "alice@x.com", "bob", "bob@x.com", "carol", "dev-team",
       "ghost-team", "jira-administrators", "jira-project-ORPHAN",
       "jira-project-PROJ", "qa-team" >>

Rank(x) == CHOOSE i \in 1..Len(StrOrder) : StrOrder[i] = x

StrLess(a, b) == Rank(a) < Rank(b)

RECURSIVE InsertSorted(_, _)
InsertSorted(s, x) ==
    IF s = <<>> THEN <<x>>
    ELSE IF StrLess(x, Head(s)) THEN <<x>> \o s
    ELSE <<Head(s)>> \o InsertSorted(Tail(s), x)

\* sorted() left out: the set is iterated in insertion order
sorted_insertion_order(s) == s

RECURSIVE sorted(_)
sorted(s) == IF s = <<>> THEN <<>> ELSE InsertSorted(sorted(Tail(s)), Head(s))

\* ------------------------------------------------------------ ACLManager
ZeroLookups == [g \in GroupNames |-> 0]

CountLookup(lookups, group_name) ==
    IF group_name \in GroupNames
    THEN [lookups EXCEPT ![group_name] = @ + 1]
    ELSE lookups

\* member.get('emailAddress'), falling back to member.get('name')
MemberId(member) ==
    IF member.emailAddress # "" THEN member.emailAddress ELSE member.name

RECURSIVE AddMembers(_, _)
AddMembers(users, members) ==
    IF members = <<>> THEN users
    ELSE LET user_email == MemberId(Head(members))
         IN AddMembers(IF user_email # "" THEN SetAdd(users, user_email) ELSE users,
                       Tail(members))

\* the group is looked up but its members are not added
_expand_group_to_users_no_members(group_name, acc) ==
    [acc EXCEPT !.lookups = CountLookup(@, group_name)]

\* acc = [users, groups, lookups, raised]: the two sets being collected, the
\* group-member lookups made so far, and whether an exception is propagating.
_expand_group_to_users(group_name, acc) ==
    [acc EXCEPT !.users = AddMembers(@, get_group_members(group_name)),
                !.lookups = CountLookup(@, group_name)]

AclActor(actor, acc) ==
    CASE actor.type = "atlassian-group-role-actor" ->
            IF actor.name # ""
            THEN _expand_group_to_users(actor.name,
                     [acc EXCEPT !.groups = SetAdd(@, actor.name)])
            ELSE acc
      [] actor.type = "atlassian-user-role-actor" ->
            IF actor.name # ""
            THEN [acc EXCEPT !.users = SetAdd(@, actor.name)]
            ELSE acc
      [] OTHER -> acc

RECURSIVE AclActors(_, _)
AclActors(actors, acc) ==
    IF actors = <<>> THEN acc
    ELSE AclActors(Tail(actors), AclActor(Head(actors), acc))

AclGrant(project_key, grant, acc) ==
    CASE grant.holder_type = "null" -> [acc EXCEPT !.raised = TRUE]
      [] grant.holder_type = "group" ->
            IF grant.parameter # ""
            THEN _expand_group_to_users(grant.parameter,
                     [acc EXCEPT !.groups = SetAdd(@, grant.parameter)])
            ELSE acc
      [] grant.holder_type = "user" ->
            IF grant.parameter # ""
            THEN [acc EXCEPT !.users = SetAdd(@, grant.parameter)]
            ELSE acc
      [] grant.holder_type = "projectRole" ->
            IF grant.parameter # ""
            THEN AclActors(get_project_role_actors(project_key, grant.parameter), acc)
            ELSE acc
      [] OTHER -> acc

\* the loop over browse_grants; an exception leaves the loop at once
RECURSIVE AclGrants(_, _, _)
AclGrants(project_key, grants, acc) ==
    IF grants = <<>> \/ acc.raised THEN acc
    ELSE AclGrants(project_key, Tail(grants), AclGrant(project_key, Head(grants), acc))

IsBrowse(g) == g.permission = "BROWSE_PROJECTS"

\* no default access is substituted
FallbackGroups_none(groups, project_key) == groups

FallbackGroups(groups, project_key) ==
    SetAdd(SetAdd(groups, "jira-project-" \o project_key), "jira-administrators")

\* lines 277-362: the users and groups with access to the issue's project
NothingResolved ==
    [users |-> <<>>, groups |-> <<>>, lookups |-> ZeroLookups, raised |-> FALSE]

\* "Fall back to default access": lines 292-293, 299-300, 357-358, 361-362
DefaultAccess(acc, project_key) ==
    [acc EXCEPT !.groups = FallbackGroups(@, project_key), !.raised = FALSE]

\* the except clause of lines 354-358
CatchAclError(acc, project_key) ==
    IF acc.raised THEN DefaultAccess(acc, project_key) ELSE acc

\* lines 295-352: the scheme was found
ResolveScheme(project_key, permission_scheme) ==
    IF permission_scheme.id = "" THEN DefaultAccess(NothingResolved, project_key)
    ELSE CatchAclError(
             AclGrants(project_key,
                       SelectSeq(get_permission_scheme_grants(permission_scheme.id),
                                 IsBrowse),
                       NothingResolved),
             project_key)

ResolveAccess(project_key, has_client) ==
    IF ~has_client THEN DefaultAccess(NothingResolved, project_key)
    ELSE IF get_project_permission_scheme(project_key).empty
    THEN DefaultAccess(NothingResolved, project_key)
    ELSE ResolveScheme(project_key, get_project_permission_scheme(project_key))

\* the user principal without the membershipType entry
UserPrincipal_id_and_access(user_email) ==
    [user |-> [id |-> user_email, access |-> "ALLOW"]]

UserPrincipal(user_email) ==
    [user |-> [id |-> user_email, access |-> "ALLOW", membershipType |-> "DATASOURCE"]]

GroupPrincipal(group_name) ==
    [group |-> [name |-> group_name, access |-> "ALLOW", membershipType |-> "DATASOURCE"]]

\* lines 364-385: users first, then groups, each in sorted() order
BuildPrincipals(all_users, all_groups) ==
    LET us == sorted(all_users)
        gs == sorted(all_groups)
    IN [i \in 1..Len(us) |-> UserPrincipal(us[i])]
       \o [i \in 1..Len(gs) |-> GroupPrincipal(gs[i])]

None == [none |-> TRUE]

AccessConfiguration(principals) ==
    [accessConfiguration |->
        [accessControls |-> << [principals |-> principals, memberRelation |-> "OR"] >>]]

\* An issue is [key, fields_ok, project].  fields_ok = FALSE is an issue whose
\* 'fields' is null (fields.get raises); project = [isdict, key], where
\* isdict = FALSE is a missing or null 'project' and key = "" a project
\* without key.
BuildAcl(acc) ==
    [ret |-> AccessConfiguration(BuildPrincipals(acc.users, acc.groups)),
     all_users |-> acc.users, all_groups |-> acc.groups, lookups |-> acc.lookups]

get_document_acl(issue, has_client) ==
    IF ~issue.fields_ok \/ ~issue.project.isdict \/ issue.project.key = ""
    THEN [ret |-> None, all_users |-> <<>>, all_groups |-> <<>>,
          lookups |-> ZeroLookups]
    ELSE BuildAcl(ResolveAccess(issue.project.key, has_client))

\* ----------------------------------------------------------------- issues
Issue(key, fields_ok, isdict, project_key) ==
    [key |-> key, fields_ok |-> fields_ok,
     project |-> [isdict |-> isdict, key |-> project_key]]

Issues ==
    { Issue("PROJ-1", TRUE, TRUE, "PROJ"), Issue("PROJ-2", TRUE, TRUE, "PROJ"),
      Issue("ORPHAN-1", TRUE, TRUE, "ORPHAN"),
      Issue("LOST-1", TRUE, FALSE, ""), Issue("LOST-2", TRUE, TRUE, ""),
      Issue("BAD-1", FALSE, FALSE, "") }

\* The lookup counter saturates at MaxLookups ("MaxLookups or more").
AddLookups(a, b) ==
    [g \in GroupNames |-> IF a[g] + b[g] > MaxLookups THEN MaxLookups ELSE a[g] + b[g]]

\* --------------------------------------------- JiraDocumentProcessor, upload
\* the document id is built from the key of the issue's project
process_issue_project_id(issue) ==
    IF issue.fields_ok
    THEN [id |-> "jira-issue-" \o issue.project.key, contentType |-> "PLAIN_TEXT"]
    ELSE None

\* process_issue: the document of the issue, None when building it raised.
process_issue(issue) ==
    IF issue.fields_ok
    THEN [id |-> "jira-issue-" \o issue.key, contentType |-> "PLAIN_TEXT"]
    ELSE None

\* doc.update(acl_info): the keys of acl_info are set in doc
DictUpdate(doc, acl_info) == acl_info @@ doc

\* the loop body of _process_issues_batch for one issue; acc = [documents, lookups].
\* An attachment of a supported type makes process_attachment raise (the
\* processor has no such method) after the issue's document was appended, so
\* attachments never change the document list.
AttachAcl(doc, r, acc) ==
    [documents |-> Append(acc.documents,
                          IF r.ret # None THEN DictUpdate(doc, r.ret) ELSE doc),
     lookups |-> AddLookups(acc.lookups, r.lookups)]

BatchIssue(issue, acc) ==
    IF process_issue(issue) = None THEN acc
    ELSE AttachAcl(process_issue(issue), get_document_acl(issue, TRUE), acc)

RECURSIVE BatchIssues(_, _)
BatchIssues(issues, acc) ==
    IF issues = <<>> THEN acc
    ELSE BatchIssues(Tail(issues), BatchIssue(Head(issues), acc))

BatchPutLimit == 10

\* the response of batch_put_document lists the documents the store rejected
\* in failedDocuments: the first `rejected` of the documents sent
FailedDocuments(sent, rejected) ==
    SubSeq(sent, 1, IF rejected > Len(sent) THEN Len(sent) ELSE rejected)

\* batch_put_documents_with_execution_id: the documents sent to the store
\* (at most 10), the 'success' of the returned dict and its 'uploaded_count'
\* (the documents sent less the failedDocuments). store_ok = FALSE is the
\* call raising.
batch_put_documents_with_execution_id(documents, store_ok, rejected) ==
    LET sent == SubSeq(documents, 1,
                       IF Len(documents) > BatchPutLimit THEN BatchPutLimit
                       ELSE Len(documents))
    IN [success |-> store_ok, sent |-> IF store_ok THEN sent ELSE <<>>,
        handed |-> documents,
        uploaded_count |-> IF store_ok
                           THEN Len(sent) - Len(FailedDocuments(sent, rejected))
                           ELSE 0]

\* lines 302-313: the upload of the documents built, and the batch's stats
UploadResult(acc, upload_result) ==
    [stats |-> [uploaded |-> IF upload_result.success THEN Len(acc.documents)
                             ELSE 0],
     called |-> TRUE,
     documents |-> upload_result.handed,
     accepted |-> upload_result.uploaded_count,
     lookups |-> acc.lookups]

UploadBatch(acc, store_ok, rejected) ==
    IF acc.documents = <<>>
    THEN [stats |-> [uploaded |-> 0], called |-> FALSE, documents |-> <<>>,
          accepted |-> 0, lookups |-> acc.lookups]
    ELSE UploadResult(acc, batch_put_documents_with_execution_id(acc.documents,
                                                                 store_ok, rejected))

_process_issues_batch(issues, store_ok, rejected) ==
    UploadBatch(BatchIssues(issues, [documents |-> <<>>, lookups |-> ZeroLookups]),
                store_ok, rejected)

Idle == [op |-> "none"]

\* ------------------------------------------------------------------ Init
Init ==
    /\ jira \in JiraEnvs
    /\ group_lookups = ZeroLookups
    /\ qb_users = {}
    /\ persistent_store = {}
    /\ last_sync_date = 0
    /\ last = Idle

\* --------------------------------------------------------------- actions
\* One call of ACLManager.get_document_acl on the connector's ACLManager.
AclReturned(issue, has_client, r) ==
    /\ group_lookups' = AddLookups(group_lookups, r.lookups)
    /\ last' = [op |-> "get_document_acl", issue |-> issue,
                has_client |-> has_client, ret |-> r.ret,
                all_users |-> r.all_users, all_groups |-> r.all_groups]
    /\ UNCHANGED <<jira, qb_users, persistent_store, last_sync_date>>

GetDocumentAcl(issue, has_client) ==
    AclReturned(issue, has_client, get_document_acl(issue, has_client))

Next ==
    \E issue \in Issues, has_client \in BOOLEAN : GetDocumentAcl(issue, has_client)

Spec == Init /\ [][Next]_vars

\* One call of JiraQBusinessConnector._process_issues_batch.
BatchReturned(issues, r) ==
    /\ group_lookups' = AddLookups(group_lookups, r.lookups)
    /\ last' = [op |-> "_process_issues_batch", issues |-> issues,
                upload_called |-> r.called, documents |-> r.documents,
                accepted |-> r.accepted, stats |-> r.stats]
    /\ UNCHANGED <<jira, qb_users, persistent_store, last_sync_date>>

ProcessIssuesBatch(issues, store_ok, rejected) ==
    BatchReturned(issues, _process_issues_batch(issues, store_ok, rejected))

\* The batches are drawn over one issue of each shape, the Jira servers over
\* the schemes with at most one grant.
BatchIssueUniverse == {issue \in Issues : issue.key # "PROJ-2"}

InitBatch == Init /\ Len(jira.grants) <= 1

\* the store rejects none, some or all of the documents of a call it answers
NextBatch ==
    \E issues \in SeqsUpTo(BatchIssueUniverse, MaxBatch), store_ok \in BOOLEAN,
       rejected \in 0..MaxBatch :
        /\ rejected <= Len(issues)
        /\ ~store_ok => rejected = 0
        /\ ProcessIssuesBatch(issues, store_ok, rejected)

SpecBatch == InitBatch /\ [][NextBatch]_vars

\* ------------------------------------------------ ACL synchronisation run
UserIds == {"alice", "alice@x.com", "bob", "bob@x.com", "carol"}

\* JiraClient.get_all_projects: the projects, [] when the request fails
\* (reachable = FALSE: the server cannot be reached or rejects the credentials)
get_all_projects(reachable) ==
    IF reachable THEN <<[key |-> "PROJ"], [key |-> "ORPHAN"]>> ELSE <<>>

\* set.update(other): every element of other is added
RECURSIVE SetUpdate(_, _)
SetUpdate(s, other) ==
    IF other = <<>> THEN s ELSE SetUpdate(SetAdd(s, Head(other)), Tail(other))

GrantActor(actor, acc) ==
    CASE actor.type = "atlassian-group-role-actor" ->
            IF actor.name # "" THEN [acc EXCEPT !.groups = SetAdd(@, actor.name)] ELSE acc
      [] actor.type = "atlassian-user-role-actor" ->
            IF actor.name # "" THEN [acc EXCEPT !.users = SetAdd(@, actor.name)] ELSE acc
      [] OTHER -> acc

RECURSIVE GrantActors(_, _)
GrantActors(actors, acc) ==
    IF actors = <<>> THEN acc
    ELSE GrantActors(Tail(actors), GrantActor(Head(actors), acc))

\* the group's members are added to the returned users as well
UsersAndGroups(acc) == [users |-> acc.users, groups |-> acc.groups, raised |-> acc.raised]

_process_permission_grant_expanding(project_key, grant) ==
    UsersAndGroups(AclGrant(project_key, grant, NothingResolved))

\* (users, groups) of one grant; raised = the call raised instead of returning
NoUsersNoGroups == [users |-> <<>>, groups |-> <<>>, raised |-> FALSE]

_process_permission_grant(project_key, grant) ==
    LET empty == NoUsersNoGroups
    IN CASE grant.holder_type = "null" -> [empty EXCEPT !.raised = TRUE]
         [] grant.holder_type = "group" ->
                IF grant.parameter # ""
                THEN [empty EXCEPT !.groups = SetAdd(@, grant.parameter)]
                ELSE empty
         [] grant.holder_type = "user" ->
                IF grant.parameter # ""
                THEN [empty EXCEPT !.users = SetAdd(@, grant.parameter)]
                ELSE empty
         [] grant.holder_type = "projectRole" ->
                IF grant.parameter # ""
                THEN GrantActors(get_project_role_actors(project_key, grant.parameter),
                                 empty)
                ELSE empty
         [] OTHER -> empty

\* the members of a group are not collected
MemberEmails_none(members) == <<>>

\* member_emails of one group: email, else name, of each member that has one
RECURSIVE MemberEmails(_)
MemberEmails(members) ==
    IF members = <<>> THEN <<>>
    ELSE LET email == MemberId(Head(members))
         IN (IF email # "" THEN <<email>> ELSE <<>>) \o MemberEmails(Tail(members))

HasGroup(all_groups, group_name) ==
    \E i \in 1..Len(all_groups) : all_groups[i].name = group_name

\* lines 102-117 for one group of a grant.  all_groups is the dict
\* group name -> {members, projects}, kept as a sequence of entries.
\* lines 103-104: the group's entry is created when absent
WithGroup(all_groups, group_name) ==
    IF HasGroup(all_groups, group_name) THEN all_groups
    ELSE Append(all_groups, [name |-> group_name, members |-> <<>>, projects |-> <<>>])

\* lines 106, 117: the project and the members are added to the group's entry
UpdateGroup(entries, group_name, project_key, member_emails) ==
    [i \in 1..Len(entries) |->
        IF entries[i].name = group_name
        THEN [entries[i] EXCEPT !.projects = SetAdd(@, project_key),
                                !.members = SetUpdate(@, member_emails)]
        ELSE entries[i]]

AddGroupMembers(project_key, group_name, member_emails, acc) ==
    [acc EXCEPT
        !.all_groups = UpdateGroup(WithGroup(@, group_name), group_name, project_key,
                                   member_emails),
        !.all_users = SetUpdate(@, member_emails),
        !.lookups = CountLookup(@, group_name)]

SyncGroup(project_key, group_name, acc) ==
    AddGroupMembers(project_key, group_name,
                    MemberEmails(get_group_members(group_name)), acc)

RECURSIVE SyncGroups(_, _, _)
SyncGroups(project_key, groups, acc) ==
    IF groups = <<>> THEN acc
    ELSE SyncGroups(project_key, Tail(groups), SyncGroup(project_key, Head(groups), acc))

\* lines 93-117 for one BROWSE_PROJECTS grant
AddGrant(project_key, grant, r, acc) ==
    IF r.raised THEN [acc EXCEPT !.raised = TRUE]
    ELSE SyncGroups(project_key, r.groups,
             [acc EXCEPT !.all_users = SetUpdate(@, r.users),
                         !.grant_results =
                             Append(@, [project_key |-> project_key, grant |-> grant,
                                        users |-> r.users, groups |-> r.groups])])

SyncGrant(project_key, grant, acc) ==
    AddGrant(project_key, grant, _process_permission_grant(project_key, grant), acc)

RECURSIVE SyncGrants(_, _, _)
SyncGrants(project_key, grants, acc) ==
    IF grants = <<>> \/ acc.raised THEN acc
    ELSE SyncGrants(project_key, Tail(grants), SyncGrant(project_key, Head(grants), acc))

\* lines 66-123 for one project: a project without scheme is skipped, an
\* exception ends the project and keeps what was collected before it.
\* the exception of one project is not caught inside the loop over projects
EndProject_propagating(a) ==
    IF a.raised THEN a ELSE [a EXCEPT !.projects_processed = @ + 1]

\* lines 119-123: the project is counted unless its processing raised
EndProject(a) ==
    IF a.raised THEN [a EXCEPT !.raised = FALSE]
    ELSE [a EXCEPT !.projects_processed = @ + 1]

SyncScheme(project_key, permission_scheme, acc) ==
    IF permission_scheme.empty THEN acc
    ELSE IF permission_scheme.id = "" THEN acc
    ELSE EndProject(
             SyncGrants(project_key,
                        SelectSeq(get_permission_scheme_grants(permission_scheme.id),
                                  IsBrowse),
                        acc))

SyncProject(project, acc) ==
    IF project.key = "" THEN acc
    ELSE SyncScheme(project.key, get_project_permission_scheme(project.key), acc)

RECURSIVE SyncProjects(_, _)
SyncProjects(projects, acc) ==
    IF projects = <<>> THEN acc
    ELSE SyncProjects(Tail(projects), SyncProject(Head(projects), acc))

\* lines 53-59; project_keys = <<>> stands for None and for the empty list
SelectProjects(all_projects, project_keys) ==
    IF project_keys = <<>> THEN all_projects
    ELSE LET Wanted(project) == project.key \in Elems(project_keys)
         IN SelectSeq(all_projects, Wanted)

\* every discovered group is written to the store
GroupWrites_all(all_groups) == [i \in 1..Len(all_groups) |-> all_groups[i].name]

\* lines 125-127: the put_group calls of a run; group synchronisation is disabled
GroupWrites(all_groups) == <<>>

\* ---------------------------------------------------- Q Business user store
\* A fault is [user, kind]: kind "get_user" makes get_user fail with an error
\* other than ResourceNotFoundException, kind "write" makes create_user and
\* update_user fail.
NoFaults == {}

Fault(user, kind) == [user |-> user, kind |-> kind]

get_user(store, user_id, faults) ==
    IF Fault(user_id, "get_user") \in faults
    THEN [success |-> FALSE, has_user_exists |-> FALSE, user_exists |-> FALSE]
    ELSE IF user_id \in store
    THEN [success |-> TRUE, has_user_exists |-> FALSE, user_exists |-> FALSE]
    ELSE [success |-> FALSE, has_user_exists |-> TRUE, user_exists |-> FALSE]

create_user(store, user_id, faults) ==
    LET ok == Fault(user_id, "write") \notin faults /\ user_id \notin store
    IN [success |-> ok, store |-> IF ok THEN store \cup {user_id} ELSE store]

update_user(store, user_id, faults) ==
    [success |-> Fault(user_id, "write") \notin faults /\ user_id \in store,
     store |-> store]

NoCalls == [u \in UserIds |-> [create |-> 0, update |-> 0]]

\* qb = [store, calls, failed]: the store's users, the create/update calls made
\* and the users whose create or update returned success = False
\* user_result.get('user_exists', True)
UserExists(user_result) ==
    IF user_result.has_user_exists THEN user_result.user_exists ELSE TRUE

\* lines 229-232, 236-239: a failed write is logged as a warning, nothing else
WriteDone(result, failed, user_email) ==
    IF result.success THEN failed ELSE SetAdd(failed, user_email)

_sync_user_to_qbusiness(qb, user_email, faults) ==
    IF UserExists(get_user(qb.store, user_email, faults))
    THEN [store |-> update_user(qb.store, user_email, faults).store,
          calls |-> [qb.calls EXCEPT ![user_email].update = @ + 1],
          failed |-> WriteDone(update_user(qb.store, user_email, faults),
                               qb.failed, user_email)]
    ELSE [store |-> create_user(qb.store, user_email, faults).store,
          calls |-> [qb.calls EXCEPT ![user_email].create = @ + 1],
          failed |-> WriteDone(create_user(qb.store, user_email, faults),
                               qb.failed, user_email)]

\* lines 131-138: the loop over all_users; _sync_user_to_qbusiness never raises
\* (the client returns a result dict), so every user counts as processed.
UserProcessed(qb, acc) ==
    [store |-> qb.store, calls |-> qb.calls, failed |-> qb.failed,
     users_processed |-> acc.users_processed + 1]

\* the loop ends at the first user whose create or update fails
RECURSIVE SyncUsers_until_failure(_, _, _)
SyncUsers_until_failure(all_users, faults, acc) ==
    IF all_users = <<>> THEN acc
    ELSE IF _sync_user_to_qbusiness(acc, Head(all_users), faults).failed # acc.failed
    THEN UserProcessed(_sync_user_to_qbusiness(acc, Head(all_users), faults), acc)
    ELSE SyncUsers_until_failure(Tail(all_users), faults,
             UserProcessed(_sync_user_to_qbusiness(acc, Head(all_users), faults), acc))

RECURSIVE SyncUsers(_, _, _)
SyncUsers(all_users, faults, acc) ==
    IF all_users = <<>> THEN acc
    ELSE SyncUsers(Tail(all_users), faults,
             UserProcessed(_sync_user_to_qbusiness(acc, Head(all_users), faults), acc))

NothingFound ==
    [all_users |-> <<>>, all_groups |-> <<>>, lookups |-> ZeroLookups,
     raised |-> FALSE, grant_results |-> <<>>, projects_processed |-> 0]

\* lines 140-145: the result of a run that reached its end
SyncResult(found, synced) ==
    [success |-> TRUE,
     stats |-> [users_processed |-> synced.users_processed,
                groups_processed |-> Len(found.all_groups),
                projects_processed |-> found.projects_processed,
                permissions_processed |-> 0],
     all_users |-> found.all_users, all_groups |-> found.all_groups,
     grant_results |-> found.grant_results, lookups |-> found.lookups,
     put_group |-> GroupWrites(found.all_groups),
     calls |-> synced.calls, failed |-> synced.failed, store |-> synced.store]

\* lines 125-145: steps 3 and 4 over what steps 1 and 2 found
SyncPrincipals(found, store, faults) ==
    SyncResult(found,
               SyncUsers(found.all_users, faults,
                         [store |-> store, calls |-> NoCalls, failed |-> <<>>,
                          users_processed |-> 0]))

sync_jira_acl_to_qbusiness(project_keys, store, faults, reachable) ==
    SyncPrincipals(SyncProjects(SelectProjects(get_all_projects(reachable),
                                               project_keys),
                                NothingFound),
                   store, faults)

\* JiraQBusinessConnector.sync_acl_with_execution_id: the stats are renamed
\* lines 344-352
TransformStats(result) ==
    IF result.success
    THEN [result EXCEPT !.stats = [users |-> @.users_processed,
                                   groups |-> @.groups_processed,
                                   memberships |-> @.projects_processed]]
    ELSE result

sync_acl_with_execution_id(project_keys, store, faults, reachable) ==
    TransformStats(sync_jira_acl_to_qbusiness(project_keys, store, faults, reachable))

ProjectKeyLists == {<<>>, <<"PROJ">>, <<"ORPHAN">>}

\* the store cannot be reached at all: every request for every user fails
StoreUnreachable == {Fault(u, k) : u \in UserIds, k \in {"get_user", "write"}}

FaultChoices ==
    {NoFaults, StoreUnreachable}
    \cup {{Fault(u, k)} : u \in {"alice@x.com"}, k \in {"get_user", "write"}}

\* One ACL synchronisation: handle_acl_sync / cmd_sync_acl calling
\* sync_acl_with_execution_id.  previous_groups is the group count the
\* preceding run over the same projects, with Jira answering as in this run,
\* reported; -1 when there was none.
SyncReturned(project_keys, faults, reachable, r) ==
    /\ group_lookups' = AddLookups(group_lookups, r.lookups)
    /\ qb_users' = r.store
    /\ last' = [op |-> "sync_acl", project_keys |-> project_keys,
                faults |-> faults, jira_reachable |-> reachable,
                store_before |-> qb_users, failed |-> r.failed,
                success |-> r.success, stats |-> r.stats,
                all_users |-> r.all_users, all_groups |-> r.all_groups,
                grant_results |-> r.grant_results, put_group |-> r.put_group,
                calls |-> r.calls,
                previous_groups |->
                    IF /\ last.op = "sync_acl"
                       /\ last.project_keys = project_keys
                       /\ last.jira_reachable = reachable
                    THEN last.stats.groups ELSE -1]
    /\ UNCHANGED <<jira, persistent_store, last_sync_date>>

SyncAcl(project_keys, faults, reachable) ==
    SyncReturned(project_keys, faults, reachable,
                 sync_acl_with_execution_id(project_keys, qb_users, faults, reachable))

\* With Jira unreachable no user is found and the store is not called: the
\* store's faults are drawn for the runs in which Jira answers.
NextSync ==
    \E project_keys \in ProjectKeyLists, faults \in FaultChoices,
       reachable \in BOOLEAN :
        /\ ~reachable => faults = NoFaults
        /\ SyncAcl(project_keys, faults, reachable)

SpecSync == Init /\ [][NextSync]_vars

\* ------------------------------------------------------------- sync plans
\* config.projects: the configured project keys, <<>> when none is configured
ConfigProjectLists == SeqsUpTo(Projects, MaxConfigProjects)

\* JiraClient.get_projects: unlike get_all_projects it lets the error through
get_projects == <<[key |-> "PROJ"], [key |-> "ORPHAN"]>>

\* lines 414-417 and 428-431: the configured projects, else every Jira project
PlanProjects(config_projects) ==
    IF config_projects # <<>> THEN config_projects
    ELSE [i \in 1..Len(get_projects) |-> get_projects[i].key]

\* the plan is cut into slices of two projects
AclPlanItems_pairs(projects) ==
    [i \in 1..((Len(projects) + 1) \div 2) |->
        [projects |-> SubSeq(projects, 2 * i - 1,
                             IF 2 * i > Len(projects) THEN Len(projects) ELSE 2 * i),
         acl_sync |-> TRUE]]

\* line 420: projects[i:i+1] for i in range(0, len(projects), 1)
AclPlanItems(projects) ==
    [i \in 1..Len(projects) |-> [projects |-> SubSeq(projects, i, i), acl_sync |-> TRUE]]

build_jira_acl_sync_plan(config_projects) == AclPlanItems(PlanProjects(config_projects))

max_results_per_page == 100

\* the 'total' that search_issues reports for a project: totals around the
\* upload limit and around the page boundaries
IssueTotals ==
    {0, 1, BatchPutLimit + 1, MaxPages * max_results_per_page}
    \cup {k * max_results_per_page : k \in 1..(MaxPages - 1)}
    \cup {k * max_results_per_page + 1 : k \in 1..(MaxPages - 1)}

\* the page count is rounded down
TotalPages_floor(total_issues) == total_issues \div max_results_per_page

\* line 439
TotalPages(total_issues) ==
    (total_issues + max_results_per_page - 1) \div max_results_per_page

\* every page is given the full page size
PageMaxResults_full(total_issues, start_at) == max_results_per_page

\* line 442: min(total_issues - start_at, max_results_per_page)
PageMaxResults(total_issues, start_at) ==
    IF total_issues - start_at < max_results_per_page
    THEN total_issues - start_at ELSE max_results_per_page

\* lines 440-450: the plan items of one project
ProjectPages(project, total_issues) ==
    [page \in 1..TotalPages(total_issues) |->
        [project |-> project, page |-> page,
         start_at |-> (page - 1) * max_results_per_page,
         max_results |-> PageMaxResults(total_issues,
                                        (page - 1) * max_results_per_page),
         issues_sync |-> TRUE]]

RECURSIVE IssuePlanItems(_, _)
IssuePlanItems(projects, totals) ==
    IF projects = <<>> THEN <<>>
    ELSE ProjectPages(Head(projects), totals[Head(projects)])
         \o IssuePlanItems(Tail(projects), totals)

build_jira_issues_sync_plan(config_projects, totals) ==
    IssuePlanItems(PlanProjects(config_projects), totals)

\* handle_acl_sync_plan: 200 and the plan, 500 when building it raised (no
\* projects configured and Jira unreachable)
PlanFails(config_projects, reachable) == config_projects = <<>> /\ ~reachable

AclSyncPlan(config_projects, reachable) ==
    /\ last' = IF PlanFails(config_projects, reachable)
               THEN [op |-> "acl_sync_plan", config_projects |-> config_projects,
                     statusCode |-> 500, plan |-> <<>>]
               ELSE [op |-> "acl_sync_plan", config_projects |-> config_projects,
                     statusCode |-> 200,
                     plan |-> build_jira_acl_sync_plan(config_projects)]
    /\ UNCHANGED <<jira, group_lookups, qb_users, persistent_store, last_sync_date>>

\* handle_issues_sync_plan: search_issues raises when Jira is unreachable
IssuesSyncPlan(config_projects, totals, reachable) ==
    /\ last' = IF ~reachable
               THEN [op |-> "issues_sync_plan", config_projects |-> config_projects,
                     totals |-> totals, statusCode |-> 500, plan |-> <<>>]
               ELSE [op |-> "issues_sync_plan", config_projects |-> config_projects,
                     totals |-> totals, statusCode |-> 200,
                     plan |-> build_jira_issues_sync_plan(config_projects, totals)]
    /\ UNCHANGED <<jira, group_lookups, qb_users, persistent_store, last_sync_date>>

\* The plans do not read the permission data: one Jira server is enough.
InitPlan ==
    /\ Init
    /\ jira = [scheme |-> [p \in Projects |-> SchemeWithId],
               grants |-> <<>>, actors |-> <<>>]

NextPlan ==
    \/ \E config_projects \in ConfigProjectLists, reachable \in BOOLEAN :
          AclSyncPlan(config_projects, reachable)
    \/ \E config_projects \in ConfigProjectLists, totals \in [Projects -> IssueTotals],
          reachable \in BOOLEAN :
          IssuesSyncPlan(config_projects, totals, reachable)

SpecPlan == InitPlan /\ [][NextPlan]_vars

\* ------------------------------------------------ issue search and paging
MaxTotal == 4
MaxPageLen == 3
MaxYield == 3

Min(a, b) == IF a <= b THEN a ELSE b

\* the issue at offset n (from 0) of the issues of a project that match the
\* query; `updated` is the day of its last change
IssueAt(project, n) ==
    [key |-> project \o "-" \o ToString(n + 1), fields_ok |-> TRUE,
     project |-> [isdict |-> TRUE, key |-> project], updated |-> 1]

\* JiraClient.search_issues for a query that matches `total` issues: the
\* issues from offset start_at on, at most max_results and at most page_cap of
\* them (the longest page the server returns), and the total.
search_issues(project, total, page_cap, start_at, max_results) ==
    [issues |-> [k \in 1..Min(Min(max_results, page_cap),
                               IF start_at < total THEN total - start_at ELSE 0)
                    |-> IssueAt(project, start_at + k - 1)],
     total |-> total]

\* JiraClient.get_all_issues_iterator: the issues yielded, in order
RECURSIVE IteratorFrom(_, _, _, _, _)
IteratorPage(result, start_at, project, total, page_cap, batch_size) ==
    IF result.issues = <<>> THEN <<>>
    ELSE IF start_at + Len(result.issues) >= result.total THEN result.issues
    ELSE result.issues
         \o IteratorFrom(start_at + batch_size, project, total, page_cap, batch_size)

IteratorFrom(start_at, project, total, page_cap, batch_size) ==
    IteratorPage(search_issues(project, total, page_cap, start_at, batch_size),
                 start_at, project, total, page_cap, batch_size)

get_all_issues_iterator(project, total, page_cap, batch_size) ==
    IteratorFrom(0, project, total, page_cap, batch_size)

\* JiraConnector._get_issues_in_batches: the batches yielded, in order
RECURSIVE BatchesFrom(_, _, _, _, _)
BatchesPage(result, start_at, project, total, page_cap, batch_size) ==
    IF result.issues = <<>> THEN <<>>
    ELSE IF start_at + Len(result.issues) >= result.total THEN <<result.issues>>
    ELSE <<result.issues>>
         \o BatchesFrom(start_at + batch_size, project, total, page_cap, batch_size)

BatchesFrom(start_at, project, total, page_cap, batch_size) ==
    BatchesPage(search_issues(project, total, page_cap, start_at, batch_size),
                start_at, project, total, page_cap, batch_size)

_get_issues_in_batches(project, total, page_cap, batch_size) ==
    BatchesFrom(0, project, total, page_cap, batch_size)

\* One run of each paging generator to its end over the same query.
IterateAll(project, total, page_cap, batch_size) ==
    /\ last' = [op |-> "get_all_issues_iterator", project |-> project,
                total |-> total, page_cap |-> page_cap, batch_size |-> batch_size,
                yielded |-> get_all_issues_iterator(project, total, page_cap,
                                                    batch_size),
                batches |-> _get_issues_in_batches(project, total, page_cap,
                                                   batch_size)]
    /\ UNCHANGED <<jira, group_lookups, qb_users, persistent_store, last_sync_date>>

\* ------------------------------------- sync_issues_with_execution_id, loop
\* event_key_jmespath "[key, fields.updated]"
IdempotencyKey(issue) == <<issue.key, issue.updated>>

\* the state of the loop: the pending batch, the counters, the batches handed
\* to _process_issues_batch with the outcome of their upload, the idempotency
\* keys recorded and the group lookups made
LoopStart(store) ==
    [issues_batch |-> <<>>, total_issues |-> 0, uploaded_documents |-> 0,
     batches |-> <<>>, persistent_store |-> store, lookups |-> ZeroLookups]

\* a call of _process_issues_batch on the pending batch and the lines after it
Flushed(st, store_ok, r) ==
    [st EXCEPT !.batches = Append(@, [issues |-> st.issues_batch,
                                      success |-> store_ok]),
               !.uploaded_documents = @ + r.stats.uploaded,
               !.lookups = AddLookups(@, r.lookups)]

\* the k-th upload of the run succeeds iff uploads[k]
Flush(st, uploads) ==
    Flushed(st, uploads[Len(st.batches) + 1],
            _process_issues_batch(st.issues_batch, uploads[Len(st.batches) + 1], 0))

\* the batch is flushed when it has grown past the limit
FlushAtLimit_past(st, batch_size, uploads) ==
    IF Len(st.issues_batch) > batch_size THEN [Flush(st, uploads) EXCEPT !.issues_batch = <<>>] ELSE st

\* lines 191-208: the body of process_single_issue
FlushAtLimit(st, batch_size, uploads) ==
    IF Len(st.issues_batch) >= batch_size THEN [Flush(st, uploads) EXCEPT !.issues_batch = <<>>] ELSE st

process_single_issue(st, issue, batch_size, uploads) ==
    FlushAtLimit([st EXCEPT !.issues_batch = Append(@, issue),
                            !.total_issues = @ + 1],
                 batch_size, uploads)

\* the record written when the wrapped function has returned
SaveSuccess(st, issue) ==
    [st EXCEPT !.persistent_store = @ \cup {IdempotencyKey(issue)}]

\* @idempotent_function: the stored response is returned, and the function
\* not called, for an issue whose key is recorded
idempotent_function(st, issue, batch_size, uploads) ==
    IF IdempotencyKey(issue) \in st.persistent_store THEN st
    ELSE SaveSuccess(process_single_issue(st, issue, batch_size, uploads), issue)

RECURSIVE LoopOver(_, _, _, _)
LoopOver(st, yielded, batch_size, uploads) ==
    IF yielded = <<>> THEN st
    ELSE LoopOver(idempotent_function(st, Head(yielded), batch_size, uploads),
                  Tail(yielded), batch_size, uploads)

\* lines 210-231: the final batch and the result
FinalFlush(st, uploads) ==
    IF st.issues_batch # <<>> THEN Flush(st, uploads) ELSE st

LoopResult(st, success) ==
    [success |-> success,
     stats |-> [processed_issues |-> IF success THEN st.total_issues ELSE 0,
                uploaded_documents |-> st.uploaded_documents],
     batches |-> st.batches,
     pending |-> IF success THEN <<>> ELSE st.issues_batch,
     persistent_store |-> st.persistent_store,
     lookups |-> st.lookups]

\* lines 176-244 for an iterator that yields `yielded` and then ends or, when
\* iterator_raises, raises (search_issues raises on a failed request): the
\* exception leaves the loop and is caught at line 235.
SyncLoop(yielded, iterator_raises, config_batch_size, uploads, store) ==
    IF iterator_raises
    THEN LoopResult(LoopOver(LoopStart(store), yielded,
                             Min(config_batch_size, BatchPutLimit), uploads), FALSE)
    ELSE LoopResult(FinalFlush(LoopOver(LoopStart(store), yielded,
                                        Min(config_batch_size, BatchPutLimit),
                                        uploads),
                               uploads), TRUE)

\* -------------------------------------- sync_issues_with_execution_id, call
\* the parameters of JiraClient.get_all_issues_iterator and the keywords of
\* the call at lines 181-185
get_all_issues_iterator_parameters == {"jql", "batch_size", "fields"}
iterator_call_keywords == {"jql", "start_at", "batch_size"}

\* a call with a keyword the function does not have raises TypeError
CallRaises(keywords, parameters) == ~(keywords \subseteq parameters)

\* batch_size=100 of the call at line 184
iterator_batch_size == 100

PlanGet(sync_plan, field, default) ==
    IF field \in DOMAIN sync_plan THEN sync_plan[field] ELSE default

\* lines 148-151 and 168-175: total_available, counted by a search when the
\* plan gives none; the search raises when Jira is unreachable
CountRaises(sync_plan, reachable) ==
    PlanGet(sync_plan, "max_results", 0) = 0 /\ ~reachable

SyncFailed ==
    [success |-> FALSE,
     stats |-> [processed_issues |-> 0, uploaded_documents |-> 0],
     batches |-> <<>>, pending |-> <<>>]

\* the issues fetched are those of the query, all of them from offset 0: the
\* iterator has no start offset and max_results is read for the log only
sync_issues_with_execution_id(sync_plan, total, page_cap, reachable, uploads, store) ==
    IF CountRaises(sync_plan, reachable)
       \/ CallRaises(iterator_call_keywords, get_all_issues_iterator_parameters)
    THEN SyncFailed @@ [persistent_store |-> store, lookups |-> ZeroLookups]
    ELSE SyncLoop(get_all_issues_iterator(PlanGet(sync_plan, "project", "PROJ"),
                                          total, page_cap, iterator_batch_size),
                  ~reachable, BatchPutLimit, uploads, store)

SyncIssuesReturned(sync_plan, total, r) ==
    /\ persistent_store' = r.persistent_store
    /\ group_lookups' = AddLookups(group_lookups, r.lookups)
    /\ last' = [op |-> "sync_issues_with_execution_id", sync_plan |-> sync_plan,
                total |-> total, success |-> r.success, stats |-> r.stats,
                batches |-> r.batches]
    /\ UNCHANGED <<jira, qb_users, last_sync_date>>

\* handle_issues_sync / cmd_full_sync: one issues synchronisation, for a
\* plan item or for no plan, over a project with `total` matching issues
SyncIssues(sync_plan, total, page_cap, reachable, uploads) ==
    SyncIssuesReturned(sync_plan, total,
        sync_issues_with_execution_id(sync_plan, total, page_cap, reachable,
                                      uploads, persistent_store))

\* the uploads of a run all succeed, or all but the one numbered `failing`
UploadOutcome(failing) == [k \in 1..MaxYield |-> k # failing]

\* the plan items are those that build_jira_issues_sync_plan gives for the
\* project's total
NextIssues ==
    \/ \E project \in Projects, total \in 0..MaxTotal, page_cap \in 1..MaxPageLen,
          batch_size \in 1..MaxPageLen :
          IterateAll(project, total, page_cap, batch_size)
    \/ \E total \in IssueTotals, reachable \in BOOLEAN :
          \E sync_plan \in Elems(ProjectPages("PROJ", total)) \cup {None} :
             SyncIssues(sync_plan, total, MaxPageLen, reachable, UploadOutcome(0))

SpecIssues == InitPlan /\ [][NextIssues]_vars

\* The loop on its own, over what an iterator hands to it. The issues are
\* PROJ-1, PROJ-2 and PROJ-1 after a later change.
LoopIssues ==
    {IssueAt("PROJ", 0), IssueAt("PROJ", 1),
     [IssueAt("PROJ", 0) EXCEPT !.updated = 2]}

LoopReturned(yielded, iterator_raises, config_batch_size, r) ==
    /\ persistent_store' = r.persistent_store
    /\ group_lookups' = AddLookups(group_lookups, r.lookups)
    /\ last' = [op |-> "sync_loop", yielded |-> yielded,
                iterator_raises |-> iterator_raises,
                batch_size |-> Min(config_batch_size, BatchPutLimit),
                store_before |-> persistent_store,
                success |-> r.success, stats |-> r.stats,
                batches |-> r.batches, pending |-> r.pending]
    /\ UNCHANGED <<jira, qb_users, last_sync_date>>

RunLoop(yielded, iterator_raises, config_batch_size, uploads) ==
    LoopReturned(yielded, iterator_raises, config_batch_size,
                 SyncLoop(yielded, iterator_raises, config_batch_size, uploads,
                          persistent_store))

NextLoop ==
    \E yielded \in SeqsUpTo(LoopIssues, MaxYield), iterator_raises \in BOOLEAN,
       config_batch_size \in {1, 2, BatchPutLimit + 1}, failing \in 0..MaxYield :
        RunLoop(yielded, iterator_raises, config_batch_size, UploadOutcome(failing))

SpecLoop == InitPlan /\ [][NextLoop]_vars

\* ------------------------------------------------------- the sync job
MaxDay == 3

\* stop_qbusiness_sync returns what QBusinessClient.stop_data_source_sync
\* returns: an error of the API call comes back as 'success': False, it is
\* never raised
stop_qbusiness_sync(stop_ok) == [success |-> stop_ok]

\* handle_stop_sync_job on day `today`: 500 when the event has no
\* execution_id or put_parameter raises; the result of stop_qbusiness_sync is
\* not read, and the parameter is set to the day before today.
StopSyncJob(has_execution_id, stop_ok, ssm_ok, today) ==
    /\ last_sync_date' = IF has_execution_id /\ ssm_ok THEN today - 1
                         ELSE last_sync_date
    /\ last' = [op |-> "stop_sync", has_execution_id |-> has_execution_id,
                stop_called |-> has_execution_id,
                stop_result |-> stop_qbusiness_sync(stop_ok),
                date_before |-> last_sync_date, today |-> today,
                statusCode |-> IF has_execution_id /\ ssm_ok THEN 200 ELSE 500]
    /\ UNCHANGED <<jira, group_lookups, qb_users, persistent_store>>

\* cmd_full_sync, step by step. pc is the statement the command is at,
\* job_started whether a sync job was started in Q Business, bound whether
\* the local execution_id is assigned, stop_called whether
\* stop_qbusiness_sync was called.
FullSync(dry_run, clean_sync, pc) ==
    [op |-> "cmd_full_sync", dry_run |-> dry_run, clean_sync |-> clean_sync,
     pc |-> pc, job_started |-> FALSE, bound |-> FALSE, stop_called |-> FALSE,
     code |-> -1]

InFullSync == last.op = "cmd_full_sync"

At(pc) == InFullSync /\ last.pc = pc

Returned(run, code) == [run EXCEPT !.pc = "returned", !.code = code]

FullSyncStep(run) ==
    /\ last' = run
    /\ UNCHANGED <<jira, group_lookups, qb_users, persistent_store, last_sync_date>>

\* lines 146-161: the command begins; a dry run binds execution_id at once
Begin(dry_run, clean_sync) ==
    /\ IF InFullSync THEN last.pc \in {"returned", "raised"} ELSE TRUE
    /\ FullSyncStep(IF dry_run
                    THEN [FullSync(dry_run, clean_sync, "sync") EXCEPT !.bound = TRUE]
                    ELSE FullSync(dry_run, clean_sync, "start"))

\* line 162: start_data_source_sync_job answers; a failure comes back as
\* 'success': False and the command returns 1 (lines 164-166)
StartJob(start_ok) ==
    /\ At("start")
    /\ FullSyncStep(IF start_ok
                    THEN [last EXCEPT !.pc = "started", !.job_started = TRUE]
                    ELSE Returned(last, 1))

\* lines 162-168: the result reaches the command and execution_id is assigned
BindExecutionId ==
    /\ At("started")
    /\ FullSyncStep([last EXCEPT !.bound = TRUE,
                                 !.pc = IF last.clean_sync THEN "clean" ELSE "sync"])

\* lines 173-181: clean_all_documents; its failure is a warning
CleanDocuments ==
    /\ At("clean")
    /\ FullSyncStep([last EXCEPT !.pc = "sync"])

\* the parameters of sync_issues_with_execution_id and the keywords of the
\* calls at lines 188 and 192
sync_issues_parameters == {"execution_id", "clean_first", "sync_plan"}
full_sync_call_keywords == {"execution_id", "dry_run", "clean_first"}

\* lines 194-243 after a call that returned: a failed sync stops the job and
\* returns 1; otherwise the ACL sync, the stop of the job and 0. A dry run
\* stops nothing.
AfterSync(run, sync_ok) ==
    IF run.dry_run THEN Returned(run, 0)
    ELSE Returned([run EXCEPT !.stop_called = TRUE], IF sync_ok THEN 0 ELSE 1)

\* lines 186-192: the call of sync_issues_with_execution_id
SyncDocuments(sync_ok) ==
    /\ At("sync")
    /\ FullSyncStep(IF CallRaises(full_sync_call_keywords, sync_issues_parameters)
                    THEN [last EXCEPT !.pc = "except"]
                    ELSE AfterSync(last, sync_ok))

\* lines 252-261 and 262-270: both handlers stop the job when execution_id
\* is assigned and the run is no dry run
HandlerStops(run) == ~run.dry_run /\ run.bound

ExceptException ==
    /\ At("except")
    /\ FullSyncStep(Returned([last EXCEPT !.stop_called = HandlerStops(last)], 1))

ExceptKeyboardInterrupt ==
    /\ At("interrupted")
    /\ FullSyncStep(Returned([last EXCEPT !.stop_called = HandlerStops(last)], 130))

\* Ctrl-C: KeyboardInterrupt is raised at the statement the command is at;
\* inside the try body it reaches the handler of line 252, inside a handler
\* it leaves the command.
KeyboardInterrupt ==
    /\ InFullSync
    /\ last.pc \in {"start", "started", "clean", "sync", "except", "interrupted"}
    /\ FullSyncStep([last EXCEPT !.pc = IF last.pc \in {"except", "interrupted"}
                                        THEN "raised" ELSE "interrupted"])

NextJob ==
    \/ \E has_execution_id, stop_ok, ssm_ok \in BOOLEAN, today \in 1..MaxDay :
          /\ today - 1 >= last_sync_date
          /\ StopSyncJob(has_execution_id, stop_ok, ssm_ok, today)
    \/ \E dry_run, clean_sync \in BOOLEAN : Begin(dry_run, clean_sync)
    \/ \E start_ok \in BOOLEAN : StartJob(start_ok)
    \/ BindExecutionId
    \/ CleanDocuments
    \/ \E sync_ok \in BOOLEAN : SyncDocuments(sync_ok)
    \/ ExceptException
    \/ ExceptKeyboardInterrupt
    \/ KeyboardInterrupt

SpecJob == InitPlan /\ [][NextJob]_vars

\* ------------------------------------- two ACL plan items, the same user
Items == {1, 2}
RaceUsers == {"alice@x.com", "bob@x.com", "carol"}

\* the users whose alias for the data source is set in the store
Aliased == IF "aliased" \in DOMAIN last THEN last.aliased ELSE {}

InItems == last.op = "acl_items"

ItemsDone == InItems /\ \A w \in Items : last.pc[w] = "done"

\* a failed write makes the item fail
ItemReport_strict(failed) == [success |-> ~failed, statusCode |-> 200]

\* acl_manager.py lines 229-239 and 141-146, handle_acl_sync: a create or
\* update that returned success = False is logged; the item answers success
ItemReport(failed) == [success |-> TRUE, statusCode |-> 200]

\* Both items have found user_email in their projects (step 4, line 131) and
\* are about to call _sync_user_to_qbusiness for it.
StartItems(user_email) ==
    /\ InItems => ItemsDone
    /\ last' = [op |-> "acl_items", user |-> user_email,
                pc |-> [w \in Items |-> "get_user"],
                exists |-> [w \in Items |-> FALSE],
                report |-> [w \in Items |-> None],
                present_at_check |-> [w \in Items |-> FALSE],
                aliased |-> Aliased]
    /\ UNCHANGED <<jira, group_lookups, qb_users, persistent_store, last_sync_date>>

\* line 215: item w asks the store for the user
CheckUser(w) ==
    /\ InItems /\ last.pc[w] = "get_user"
    /\ last' = [last EXCEPT
                  !.pc[w] = "write",
                  !.exists[w] = UserExists(get_user(qb_users, last.user, NoFaults)),
                  !.present_at_check[w] = last.user \in qb_users]
    /\ UNCHANGED <<jira, group_lookups, qb_users, persistent_store, last_sync_date>>

\* lines 226-239: update_user or create_user with the alias, by what the
\* check answered; create_user of a user that exists by now is refused
ItemWrite(exists, store, user_email) ==
    IF exists THEN update_user(store, user_email, NoFaults)
    ELSE create_user(store, user_email, NoFaults)

Written(w, r) ==
    /\ qb_users' = r.store
    /\ last' = [last EXCEPT
                  !.pc[w] = "done",
                  !.report[w] = ItemReport(~r.success),
                  !.aliased = IF r.success THEN @ \cup {last.user} ELSE @]
    /\ UNCHANGED <<jira, group_lookups, persistent_store, last_sync_date>>

WriteUser(w) ==
    /\ InItems /\ last.pc[w] = "write"
    /\ Written(w, ItemWrite(last.exists[w], qb_users, last.user))

NextItems ==
    \/ \E user_email \in RaceUsers : StartItems(user_email)
    \/ \E w \in Items : CheckUser(w)
    \/ \E w \in Items : WriteUser(w)

SpecItems == InitPlan /\ [][NextItems]_vars

\* ================================================================ claims
HasProjectKey(issue) ==
    issue.fields_ok /\ issue.project.isdict /\ issue.project.key # ""

LastIsBatch == last.op = "_process_issues_batch"

\* C1: every issue document that _process_issues_batch hands to the upload call
\* carries an ACL (an accessConfiguration entry), whatever get_document_acl
\* returned for its issue.
C1_EveryUploadedDocumentHasAcl ==
    (LastIsBatch /\ last.upload_called)
        => \A i \in 1..Len(last.documents) :
               "accessConfiguration" \in DOMAIN last.documents[i]

LastIsAcl == last.op = "get_document_acl"

LastAclBuilt == LastIsAcl /\ last.ret # None

Principals(ret) == ret.accessConfiguration.accessControls[1].principals

PrincipalKey(p) ==
    IF "user" \in DOMAIN p THEN <<"user", p.user.id>> ELSE <<"group", p.group.name>>

PrincipalKeys(ps) == [i \in 1..Len(ps) |-> PrincipalKey(ps[i])]

Unresolvable(project_key) ==
    \/ get_project_permission_scheme(project_key).empty
    \/ get_project_permission_scheme(project_key).id = ""

\* C2: for every issue that has a project key and every combination of Jira
\* responses, the ACL returned by get_document_acl has a non-empty principals
\* list (the fallback principals are substituted when nothing was resolved).
C2_PrincipalsNeverEmpty ==
    (LastIsAcl /\ HasProjectKey(last.issue))
        => (last.ret # None /\ Len(Principals(last.ret)) > 0)

\* C3: for a project with no resolvable permission scheme (none, a failed
\* lookup, or a scheme without id) the ACL of its issue is non-empty and
\* consists of the fallback principals jira-project-<KEY> and
\* jira-administrators.
C3_UnresolvableSchemeFallsBack ==
    (LastIsAcl /\ HasProjectKey(last.issue) /\ Unresolvable(last.issue.project.key))
        => /\ last.ret # None
           /\ Len(Principals(last.ret)) > 0
           /\ Elems(PrincipalKeys(Principals(last.ret)))
                = { <<"group", "jira-project-" \o last.issue.project.key>>,
                    <<"group", "jira-administrators">> }

C3_Witness ==
    /\ LastIsAcl /\ last.has_client
    /\ last.issue.project.key = "PROJ"
    /\ jira.scheme["PROJ"] = SchemeWithoutId
    /\ Len(Principals(last.ret)) = 2

ScenarioB ==
    /\ LastIsAcl /\ last.has_client
    /\ last.issue.fields_ok /\ last.issue.project.isdict
    /\ last.issue.project.key = "ORPHAN"
    /\ jira.scheme["ORPHAN"] = NoScheme

\* C4 as claimed: in scenario B (project ORPHAN without permission scheme) the
\* principals are [group jira-project-ORPHAN, group jira-administrators], in
\* that order.
C4_ScenarioB_AsClaimed ==
    ScenarioB => PrincipalKeys(Principals(last.ret))
                    = << <<"group", "jira-project-ORPHAN">>,
                         <<"group", "jira-administrators">> >>

\* C4 amended: in scenario B the principals are exactly the two fallback
\* groups in sorted order: [group jira-administrators, group
\* jira-project-ORPHAN].
C4_ScenarioB ==
    ScenarioB => PrincipalKeys(Principals(last.ret))
                    = << <<"group", "jira-administrators">>,
                         <<"group", "jira-project-ORPHAN">> >>

C4_Witness == ScenarioB /\ Len(Principals(last.ret)) = 2 /\ last.issue.key = "ORPHAN-1"

ScenarioA ==
    /\ LastIsAcl /\ last.has_client
    /\ last.issue.fields_ok /\ last.issue.project.isdict
    /\ last.issue.project.key = "PROJ"
    /\ jira.scheme["PROJ"] = SchemeWithId
    /\ SelectSeq(jira.grants, IsBrowse) = <<Grant("BROWSE_PROJECTS", "projectRole", RoleId)>>
    /\ jira.actors = <<Actor("atlassian-group-role-actor", "dev-team")>>

\* C5 as claimed: in scenario A (PROJ grants browse to role Developers, whose
\* only actor is group dev-team = {alice@x.com, bob@x.com}) the ACL of a PROJ
\* issue has exactly one principal, the group dev-team.
C5_ScenarioA_AsClaimed ==
    ScenarioA => PrincipalKeys(Principals(last.ret)) = << <<"group", "dev-team">> >>

\* C5 amended: in scenario A the ACL of a PROJ issue has exactly three
\* principals: user alice@x.com, user bob@x.com, then group dev-team.
C5_ScenarioA ==
    ScenarioA => PrincipalKeys(Principals(last.ret))
                    = << <<"user", "alice@x.com">>, <<"user", "bob@x.com">>,
                         <<"group", "dev-team">> >>

C5_Witness == ScenarioA /\ last.issue.key = "PROJ-2" /\ Len(Principals(last.ret)) = 3

\* C7: within one ACLManager instance the external group-member lookup is
\* performed at most once per distinct group name.
C7_OneLookupPerGroup == \A g \in GroupNames : group_lookups[g] <= 1

\* The listing of a set of ids in code-point order, defined from the set alone.
Position(S, x) == Cardinality({y \in S : StrLess(y, x)}) + 1

Listing(S) == [i \in 1..Cardinality(S) |-> CHOOSE x \in S : Position(S, x) = i]

CanonicalPrincipals(U, G) ==
    [i \in 1..Cardinality(U) |-> UserPrincipal(Listing(U)[i])]
    \o [i \in 1..Cardinality(G) |-> GroupPrincipal(Listing(G)[i])]

\* C8: the ACL payload is a function of the resolved user set and group set
\* alone: one accessControls entry whose principals are all users, then all
\* groups, each kind in lexicographic order of id, whatever the order in which
\* they were discovered.
C8_BuildIsDeterministic ==
    LastAclBuilt
        => last.ret = AccessConfiguration(
                          CanonicalPrincipals(Elems(last.all_users),
                                              Elems(last.all_groups)))

Unsorted(s) == \E i, j \in 1..Len(s) : i < j /\ StrLess(s[j], s[i])

C8_Witness ==
    LastAclBuilt /\ Unsorted(last.all_users) /\ Unsorted(last.all_groups)

LastIsSync == last.op = "sync_acl"

DevTeamRole == jira.actors = <<Actor("atlassian-group-role-actor", "dev-team")>>

RoleGrantResults ==
    {i \in 1..Len(last.grant_results) :
        last.grant_results[i].grant.holder_type = "projectRole"}

C9_OneWritePerUser ==
    LastIsSync
        => \A u \in UserIds : last.calls[u].create + last.calls[u].update <= 1

\* alice@x.com is reached through two projects, a group grant and a role
C9_Witness ==
    /\ LastIsSync
    /\ Cardinality({i \in 1..Len(last.grant_results) :
                       "dev-team" \in Elems(last.grant_results[i].groups)}) >= 4
    /\ \E i \in 1..Len(last.all_groups) :
          last.all_groups[i].name = "dev-team" /\ Len(last.all_groups[i].projects) = 2
    /\ last.calls["alice@x.com"].create + last.calls["alice@x.com"].update = 1

\* The groups that hold BROWSE_PROJECTS in the selected projects, read off the
\* Jira responses: those of the browse grants before the first malformed one.
BrowseGrants == SelectSeq(jira.grants, IsBrowse)

Readable(i) == \A j \in 1..i : BrowseGrants[j].holder_type # "null"

GroupsOfGrant(g) ==
    CASE g.holder_type = "group" -> {g.parameter}
      [] g.holder_type = "projectRole" ->
            {jira.actors[k].name : k \in {k \in 1..Len(jira.actors) :
                jira.actors[k].type = "atlassian-group-role-actor"}}
      [] OTHER -> {}

Selected(project_keys) ==
    IF project_keys = <<>> THEN Projects ELSE Elems(project_keys)

BrowseGroups(project_keys) ==
    IF \E p \in Selected(project_keys) : jira.scheme[p] = SchemeWithId
    THEN UNION {GroupsOfGrant(BrowseGrants[i]) :
                    i \in {i \in 1..Len(BrowseGrants) : Readable(i)}}
    ELSE {}

IsRerun == LastIsSync /\ last.previous_groups >= 0 /\ last.jira_reachable

WriteCalls(u) == last.calls[u].create + last.calls[u].update

\* C11: in the user-sync loop the failure of one user's create or update does
\* not stop the loop: every user id of the discovered set gets exactly one
\* create or update call, whichever of the other users fail, and no other id
\* gets any.
C11_EveryUserAttemptedOnce ==
    LastIsSync
        => \A u \in UserIds :
              WriteCalls(u) = IF u \in Elems(last.all_users) THEN 1 ELSE 0

\* the first user of the loop failed and a later one was written
C11_Witness ==
    /\ LastIsSync
    /\ Len(last.all_users) >= 2
    /\ last.failed = <<last.all_users[1]>>
    /\ WriteCalls(last.all_users[2]) = 1
    /\ last.all_users[2] \in qb_users

\* A project whose scheme is missing or has no id, or whose browse grants hold
\* a malformed grant (processing it raises).
Troubled(p) ==
    \/ Unresolvable(p)
    \/ \E i \in 1..Len(BrowseGrants) : BrowseGrants[i].holder_type = "null"

\* what a run over project q alone discovers
Alone(q) == SyncProjects(<<[key |-> q]>>, NothingFound)

GroupKept(entry, q) ==
    \E j \in 1..Len(last.all_groups) :
        /\ last.all_groups[j].name = entry.name
        /\ q \in Elems(last.all_groups[j].projects)
        /\ Elems(entry.members) \subseteq Elems(last.all_groups[j].members)

C13_UnreachableSystemAborts ==
    (LastIsSync /\ (~last.jira_reachable \/ last.faults = StoreUnreachable))
        => ~last.success

\* C14: a run in which the create or update of some user failed returns
\* success = true and does not count the failed users among the processed
\* users.
C14_FailedUserNotCounted ==
    (LastIsSync /\ last.failed # <<>>)
        => /\ last.success
           /\ last.stats.users <= Len(last.all_users) - Len(last.failed)

JiraUsers == {Alice, Bob, Carol}

\* the ids under which the code may record a Jira user: username and email
IdsOf(user) == {user.name, user.emailAddress} \ {""}

\* C18: the user set of an ACL never holds two different ids of one Jira
\* user, whichever paths (direct grant, role actor, group membership) reached
\* the user.
C18_OneIdPerUser ==
    LastIsAcl
        => \A user \in JiraUsers :
              Cardinality(IdsOf(user) \cap Elems(last.all_users)) <= 1

\* C19: for every user of the run, update_user is called exactly when the user
\* was present in the store and create_user exactly when the user was absent.
C19_CreateIffAbsent ==
    LastIsSync
        => \A u \in Elems(last.all_users) :
              /\ (last.calls[u].update = 1) <=> (u \in last.store_before)
              /\ (last.calls[u].create = 1) <=> (u \notin last.store_before)

LastIsAclPlan == last.op = "acl_sync_plan" /\ last.statusCode = 200

LastIsIssuesPlan == last.op = "issues_sync_plan" /\ last.statusCode = 200

\* C16 as claimed: every item of the issues sync plan has a page size
\* (max_results) of at most 10 documents, the batch-upload limit.
C16_PageWithinUploadLimit_AsClaimed ==
    LastIsIssuesPlan
        => \A i \in 1..Len(last.plan) : last.plan[i].max_results <= BatchPutLimit

\* C16 amended: every item of the issues sync plan is one (project, page)
\* pair that starts at (page - 1) * 100 and whose page size (max_results) is
\* at least 1 and at most 100, the Jira page size, and ends within the
\* project's total; the last page of a project ends at its total.
C16_PageWithinJiraPage ==
    LastIsIssuesPlan
        => /\ \A i \in 1..Len(last.plan) :
                 /\ last.plan[i].project \in Elems(PlanProjects(last.config_projects))
                 /\ last.plan[i].page >= 1
                 /\ last.plan[i].start_at
                        = (last.plan[i].page - 1) * max_results_per_page
                 /\ last.plan[i].max_results >= 1
                 /\ last.plan[i].max_results <= max_results_per_page
                 /\ last.plan[i].start_at + last.plan[i].max_results
                        <= last.totals[last.plan[i].project]
           /\ \A p \in Elems(PlanProjects(last.config_projects)) :
                 last.totals[p] > 0
                    => \E i \in 1..Len(last.plan) :
                          /\ last.plan[i].project = p
                          /\ last.plan[i].start_at + last.plan[i].max_results
                                 = last.totals[p]

C16_Witness ==
    /\ LastIsIssuesPlan
    /\ \E i \in 1..Len(last.plan) :
          last.plan[i].page = 2 /\ last.plan[i].max_results = 1
    /\ \E i \in 1..Len(last.plan) : last.plan[i].max_results = max_results_per_page

OneAccessControl(ret) ==
    /\ DOMAIN ret = {"accessConfiguration"}
    /\ DOMAIN ret.accessConfiguration = {"accessControls"}
    /\ Len(ret.accessConfiguration.accessControls) = 1
    /\ DOMAIN ret.accessConfiguration.accessControls[1]
          = {"principals", "memberRelation"}
    /\ ret.accessConfiguration.accessControls[1].memberRelation = "OR"

Processed(issues) ==
    LET ok(issue) == issue.fields_ok IN SelectSeq(issues, ok)

\* C20: the document of an issue with key K has the id "jira-issue-K":
\* documents of distinct issue keys get distinct ids and processing the same
\* issue again yields the same id.
C20_DocumentIdFromKey ==
    (LastIsBatch /\ last.upload_called)
        => /\ Len(last.documents) = Len(Processed(last.issues))
           /\ \A i \in 1..Len(last.documents) :
                 last.documents[i].id = "jira-issue-" \o Processed(last.issues)[i].key
           /\ \A i, j \in 1..Len(last.documents) :
                 (last.documents[i].id = last.documents[j].id)
                    <=> (Processed(last.issues)[i].key = Processed(last.issues)[j].key)

\* two issues without project key get two document ids
C20_Witness ==
    /\ LastIsBatch /\ last.upload_called
    /\ Len(last.documents) = 2
    /\ last.issues[1].key = "LOST-1" /\ last.issues[2].key = "LOST-2"
    /\ last.documents[1].id = "jira-issue-LOST-1"
    /\ last.documents[2].id = "jira-issue-LOST-2"

NoDuplicates(s) == \A i, j \in 1..Len(s) : s[i] = s[j] => i = j

\* the plan items of project p, in plan order
ItemsOf(p) ==
    LET of_p(item) == item.project = p IN SelectSeq(last.plan, of_p)

\* ceil(T / 100), defined by its bounds
Ceil100(T) ==
    CHOOSE n \in 0..T :
        max_results_per_page * (n - 1) < T /\ T <= max_results_per_page * n

UserPrincipalIds(ret) ==
    {Principals(ret)[i].user.id :
        i \in {i \in 1..Len(Principals(ret)) : "user" \in DOMAIN Principals(ret)[i]}}

\* what an ACL synchronisation of the one project sends to the user store
SyncOf(project_key) ==
    sync_jira_acl_to_qbusiness(<<project_key>>, {}, NoFaults, TRUE)

UsersWritten(result) ==
    {u \in UserIds : result.calls[u].create + result.calls[u].update >= 1}

\* C29: for fixed Jira responses every user principal in the ACL of an issue
\* is among the users that sync_jira_acl_to_qbusiness creates or updates for
\* the issue's project.
C29_AclUsersAreSynced ==
    LastAclBuilt
        => UserPrincipalIds(last.ret)
              \subseteq UsersWritten(SyncOf(last.issue.project.key))

\* users reached through a group (by email), through a group member without
\* email and as a role actor
C29_Witness ==
    /\ LastAclBuilt /\ last.has_client
    /\ {"alice@x.com", "bob@x.com", "carol"} \subseteq UserPrincipalIds(last.ret)
    /\ Len(last.all_groups) = 2

\* C23: the number of uploaded documents a batch reports is the number of
\* documents the destination accepted; documents listed in failedDocuments
\* are not counted.
C23_UploadedCountsAccepted ==
    LastIsBatch => last.stats.uploaded = last.accepted

LastIsIterator == last.op = "get_all_issues_iterator"

RECURSIVE Flatten(_)
Flatten(ss) == IF ss = <<>> THEN <<>> ELSE Head(ss) \o Flatten(Tail(ss))

Matching(project, total) == [k \in 1..total |-> IssueAt(project, k - 1)]

\* C25: the paging generators yield every issue that matches the query
\* exactly once and in order, whatever the total and whatever the length of
\* the pages the server returns.
C25_EveryIssueYieldedOnce ==
    LastIsIterator
        => /\ last.yielded = Matching(last.project, last.total)
           /\ Flatten(last.batches) = Matching(last.project, last.total)

LastIsSyncIssues == last.op = "sync_issues_with_execution_id"

HasPlan == LastIsSyncIssues /\ last.sync_plan # None

\* C21: an issues synchronisation run for a plan item hands to
\* _process_issues_batch exactly the issues at the offsets start_at ..
\* start_at + max_results - 1 of the item's project.
C21_ItemProcessesItsRange ==
    HasPlan
        => Flatten([i \in 1..Len(last.batches) |-> last.batches[i].issues])
              = [k \in 1..last.sync_plan.max_results |->
                    IssueAt(last.sync_plan.project, last.sync_plan.start_at + k - 1)]

LastIsLoop == last.op = "sync_loop"

\* the issues handed to _process_issues_batch, in order
Passed == Flatten([i \in 1..Len(last.batches) |-> last.batches[i].issues])

\* the yielded issues whose idempotency key is not recorded when their turn
\* comes
RECURSIVE Fresh(_, _)
Fresh(yielded, store) ==
    IF yielded = <<>> THEN <<>>
    ELSE IF IdempotencyKey(Head(yielded)) \in store THEN Fresh(Tail(yielded), store)
    ELSE <<Head(yielded)>>
         \o Fresh(Tail(yielded), store \cup {IdempotencyKey(Head(yielded))})

BatchesWithinLimit ==
    \A i \in 1..Len(last.batches) :
        /\ Len(last.batches[i].issues) >= 1
        /\ Len(last.batches[i].issues) <= last.batch_size

LastIsStop == last.op = "stop_sync"

\* C28: handle_stop_sync_job changes the stored LAST_SYNC_DATE only when the
\* stop of the sync job succeeded.
C28_DateAdvancesOnlyAfterStop ==
    (LastIsStop /\ last.stop_called /\ ~last.stop_result.success)
        => last_sync_date = last.date_before

\* C30: when cmd_full_sync, not in a dry run, returns after a sync job was
\* started, stop_qbusiness_sync has been called.
C30_StartedJobIsStopped ==
    (At("returned") /\ ~last.dry_run /\ last.job_started) => last.stop_called

\* C22: when two ACL plan items have both synchronised the same user, in
\* whatever order their get_user, create_user and update_user calls took
\* place, the user is in the store with its alias and neither item reports
\* a failure.
C22_ConcurrentItemsLeaveUserPresent ==
    ItemsDone
        => /\ last.user \in qb_users
           /\ last.user \in last.aliased
           /\ \A w \in Items : last.report[w].success

\* both items saw the user absent, so both called create_user
C22_Witness ==
    /\ ItemsDone
    /\ \A w \in Items : ~last.exists[w] /\ ~last.present_at_check[w]

====
